---- MODULE Spec2Model ----
(***************************************************************************)
(* A model of dlc2kinematics/preprocess.py: load_data and                  *)
(* smooth_trajectory over a multi-index table (pandas DataFrame), the      *)
(* Savitzky-Golay filter they apply (scipy.signal.savgol_filter, default   *)
(* mode "interp") and the HDF storage they read and write.                 *)
(*                                                                         *)
(* Cell values are exact rationals <<numerator, denominator>>; file names  *)
(* are strings; a table is a record of its row index, its column labels    *)
(* and its data, column by column.                                         *)
(***************************************************************************)
EXTENDS Integers, Sequences, FiniteSets, TLC

\* ------------------------------------------------------------------ bounds

\* Rows of the largest input table.
MaxRows == 3
\* Calls (load_data or smooth_trajectory) in one run of the program.
MaxCalls == 1

\* --------------------------------------------------------------- rationals

Abs(n) == IF n < 0 THEN -n ELSE n

RECURSIVE Gcd(_, _)
Gcd(a, b) == IF b = 0 THEN a ELSE Gcd(b, a % b)

\* The rational n/d (d # 0) in lowest terms with a positive denominator.
Rat(n, d) ==
  LET g == Gcd(Abs(n), Abs(d))
      s == IF d < 0 THEN -1 ELSE 1
  IN  <<(s * n) \div g, (s * d) \div g>>

RInt(n) == <<n, 1>>
RAdd(a, b) == Rat(a[1] * b[2] + b[1] * a[2], a[2] * b[2])
RSub(a, b) == Rat(a[1] * b[2] - b[1] * a[2], a[2] * b[2])
RMul(a, b) == Rat(a[1] * b[1], a[2] * b[2])
RDiv(a, k) == Rat(a[1], a[2] * k)

\* ------------------------------------------------------------------ tables

\* Python's None, and the two values `not v` is true of (lines 113, 115).
None == "<None>"
Falsy(v) == v = None \/ v = ""

\* The column labels of one bodypart: x, y, likelihood under one scorer.
BodypartColumns(scorer, bp) ==
  << [scorer |-> scorer, bodyparts |-> bp, coords |-> "x"],
     [scorer |-> scorer, bodyparts |-> bp, coords |-> "y"],
     [scorer |-> scorer, bodyparts |-> bp, coords |-> "likelihood"] >>

RECURSIVE ColumnsOf(_, _)
ColumnsOf(scorer, bps) ==
  IF bps = <<>> THEN <<>>
  ELSE BodypartColumns(scorer, Head(bps)) \o ColumnsOf(scorer, Tail(bps))

\* A DeepLabCut table: rows first..first+n-1, the columns of bodyparts bps,
\* integer cell values that are not a polynomial in the row number.
MakeTable(scorer, bps, first, n, seed) ==
  LET cols == ColumnsOf(scorer, bps)
  IN  [ index   |-> [r \in 1..n |-> first + r - 1],
        columns |-> cols,
        data    |-> [c \in 1..Len(cols) |->
                      [r \in 1..n |-> RInt(((seed + c) * r * r + c * (r % 2)) % 7)]] ]

\* df.shape
NRows(t) == Len(t.index)
NCols(t) == Len(t.columns)

\* df.columns.get_level_values(level), as a sequence over the columns.
get_level_values(t, level) ==
  [c \in 1..NCols(t) |->
     CASE level = "scorer"    -> t.columns[c].scorer
       [] level = "bodyparts" -> t.columns[c].bodyparts
       [] level = "coords"    -> t.columns[c].coords]

\* Index.unique(): the distinct values in order of first appearance.
RECURSIVE unique(_)
unique(s) ==
  IF s = <<>> THEN <<>>
  ELSE LET init == unique(SubSeq(s, 1, Len(s) - 1))
           last == s[Len(s)]
       IN  IF \E i \in 1..Len(init) : init[i] = last THEN init
           ELSE Append(init, last)

\* Index.isin(values): a boolean per column.
isin(labels, values) ==
  [c \in 1..Len(labels) |-> \E i \in 1..Len(values) : values[i] = labels[c]]

\* The positions of the TRUE entries of a mask, ascending.
RECURSIVE Where(_)
Where(mask) ==
  IF mask = <<>> THEN <<>>
  ELSE LET init == Where(SubSeq(mask, 1, Len(mask) - 1))
       IN  IF mask[Len(mask)] THEN Append(init, Len(mask)) ELSE init

\* df.loc[:, mask]: a new table of the masked columns, all rows, in order.
loc_get(t, mask) ==
  LET keep == Where(mask)
  IN  [ index   |-> t.index,
        columns |-> [k \in 1..Len(keep) |-> t.columns[keep[k]]],
        data    |-> [k \in 1..Len(keep) |-> t.data[keep[k]]] ]

\* df.loc[:, mask] = values: the k-th masked column takes values[k].
loc_set(t, mask, values) ==
  LET keep == Where(mask)
  IN  [t EXCEPT !.data =
        [c \in 1..NCols(t) |->
           IF mask[c]
           THEN values[CHOOSE k \in 1..Len(keep) : keep[k] = c]
           ELSE t.data[c]]]

\* ------------------------------------------------- scipy.signal.savgol_filter

\* The deriv-th derivative, at position t (a rational, counted from the first
\* sample of the window), of the least-squares polynomial of degree p fitted
\* to the window w (1 to 3 samples, at positions 0, 1, 2): numpy.polyfit with
\* polyder and polyval in scipy's _fit_edge, and the convolution with
\* savgol_coeffs at the centre of the window.
PolyFitEval(w, p, d, t) ==
  LET W    == Len(w)
      zero == RInt(0)
      mean == IF W = 1 THEN w[1]
              ELSE IF W = 2 THEN RDiv(RAdd(w[1], w[2]), 2)
              ELSE RDiv(RAdd(RAdd(w[1], w[2]), w[3]), 3)
  IN  IF d > p THEN zero
      ELSE IF p = 0 THEN mean
      ELSE IF W = 2 THEN
        \* p = 1: the line through the two samples
        LET b == RSub(w[2], w[1])
        IN  IF d = 0 THEN RAdd(w[1], RMul(b, t)) ELSE b
      ELSE
        \* W = 3, u the position relative to the middle sample
        LET u == RSub(t, RInt(1))
            b == RDiv(RSub(w[3], w[1]), 2)
        IN  IF p = 1 THEN
              IF d = 0 THEN RAdd(mean, RMul(b, u)) ELSE b
            ELSE
              \* p = 2: the parabola through the three samples
              LET c == RDiv(RAdd(RSub(w[1], RMul(RInt(2), w[2])), w[3]), 2)
              IN  IF d = 0 THEN RAdd(RAdd(w[2], RMul(b, u)), RMul(c, RMul(u, u)))
                  ELSE IF d = 1 THEN RAdd(b, RMul(RMul(RInt(2), c), u))
                  ELSE RMul(RInt(2), c)

\* A filter that keeps only the samples a whole window fits around (a "valid"
\* convolution): window_length - 1 rows fewer than it was given.
savgol_column_valid(x, window_length, polyorder, deriv) ==
  [i \in 1..(Len(x) - window_length + 1) |->
     PolyFitEval(SubSeq(x, i, i + window_length - 1), polyorder, deriv,
                 Rat(window_length - 1, 2))]

\* savgol_filter along one column x (mode "interp", delta 1.0): the first and
\* the last window_length // 2 samples are evaluated on the polynomial fitted
\* to the first, resp. last, window_length samples; every other sample i on
\* the polynomial fitted to the window around i, at its centre (for an even
\* window the samples i - halflen + 1 .. i + halflen, at halflen - 1/2).
savgol_column(x, window_length, polyorder, deriv) ==
  LET n       == Len(x)
      halflen == window_length \div 2
      even    == window_length % 2 = 0
  IN  [i \in 1..n |->
        IF i <= halflen
        THEN PolyFitEval(SubSeq(x, 1, window_length), polyorder, deriv, RInt(i - 1))
        ELSE IF i > n - halflen
        THEN PolyFitEval(SubSeq(x, n - window_length + 1, n), polyorder, deriv,
                         RInt(i - 1 - (n - window_length)))
        ELSE LET start == i - halflen + (IF even THEN 1 ELSE 0)
             IN  PolyFitEval(SubSeq(x, start, start + window_length - 1),
                             polyorder, deriv,
                             IF even THEN Rat(2 * halflen - 1, 2) ELSE RInt(halflen))]

\* Whether savgol_filter returns for n samples per column (it raises
\* ValueError otherwise): savgol_coeffs wants polyorder < window_length and
\* 0 <= pos < window_length, mode "interp" wants window_length <= n, and
\* numpy.polyfit on the edges wants a degree >= 0.  scipy before 1.11 also
\* rejects an even window_length; from 1.11 on it accepts one (evenOk).
savgol_accepts(n, window_length, polyorder, evenOk) ==
  /\ polyorder < window_length
  /\ window_length > 0
  /\ (window_length % 2 = 1 \/ evenOk)
  /\ window_length <= n
  /\ polyorder >= 0

\* savgol_filter(values, window_length, polyorder, deriv, axis=0): each column
\* filtered on its own along the rows.
savgol_filter(values, window_length, polyorder, deriv) ==
  [k \in 1..Len(values) |-> savgol_column(values[k], window_length, polyorder, deriv)]

\* ----------------------------------------------------------------- storage

\* The record name both functions use (lines 43, 124).
HdfKey == "df_with_missing"

\* os.getcwd()
getcwd == "/cwd"

\* os.path.join(a, b) for a directory a without a trailing separator and a
\* relative name b, which is what the callers modelled here pass.
path_join(a, b) == a \o "/" \o b

\* A write in mode "a": the records already in the file stay.
to_hdf_append(fs, path, key, table) ==
  [q \in DOMAIN fs \cup {path} |->
     IF q # path THEN fs[q]
     ELSE IF path \in DOMAIN fs THEN (key :> table) @@ fs[path]
     ELSE (key :> table)]

\* DataFrame.to_hdf(path, key, format="table", mode="w"): mode "w" truncates
\* the file, which then holds the one record.
to_hdf(fs, path, key, table) ==
  [q \in DOMAIN fs \cup {path} |-> IF q = path THEN (key :> table) ELSE fs[q]]

\* Whether pd.read_hdf(path, key) finds the record.
hdf_readable(fs, path, key) == path \in DOMAIN fs /\ key \in DOMAIN fs[path]

\* pd.read_hdf(path, key)
read_hdf(fs, path, key) == fs[path][key]

\* ----------------------------------------------------- smooth_trajectory

\* Objects in memory: the caller's table, and what a call allocates.
CallerRef == 1

\* No copy: the name df stays bound to the caller's object.
df_alias(heap, ref) == [heap |-> heap, ref |-> ref]

\* df = df.copy() (line 102): a new object holding the same table; the name df
\* is bound to it from then on.
df_copy(heap, ref) ==
  LET new == 1 + Cardinality(DOMAIN heap)
  IN  [heap |-> heap @@ (new :> heap[ref]), ref |-> new]

\* An xy that lets every column through, likelihood included.
xy_mask_all(t) == [c \in 1..NCols(t) |-> TRUE]

\* Lines 103-108: xy, mask and to_smooth, each a boolean per column.
xy_mask(t) ==
  LET coords == get_level_values(t, "coords")
  IN  [c \in 1..NCols(t) |-> coords[c] # "likelihood"]

\* Select-all decided by the whole list being ['all'].
select_all_singleton(bodyparts) == bodyparts = <<"all">>

select_all(bodyparts) == bodyparts[1] = "all"

\* A mask that also leaves the likelihood columns out of the result.
bodypart_mask_xy(t, bodyparts) ==
  [c \in 1..NCols(t) |->
     /\ t.columns[c].coords # "likelihood"
     /\ \/ bodyparts[1] = "all"
        \/ \E i \in 1..Len(bodyparts) : bodyparts[i] = t.columns[c].bodyparts]

bodypart_mask(t, bodyparts) ==
  IF select_all(bodyparts)
  THEN [c \in 1..NCols(t) |-> TRUE]
  ELSE isin(get_level_values(t, "bodyparts"), bodyparts)

to_smooth_mask(t, bodyparts) ==
  LET xy   == xy_mask(t)
      mask == bodypart_mask(t, bodyparts)
  IN  [c \in 1..NCols(t) |-> xy[c] /\ mask[c]]

\* Lines 113-118 and 123: where the result is written.
default_filename(t) == "dataFrame_smooth_" \o unique(get_level_values(t, "scorer"))[1]

\* The path without the ".h5" suffix.
output_path_bare(t, output_filename, destfolder) ==
  path_join(IF Falsy(destfolder) THEN getcwd ELSE destfolder,
            IF Falsy(output_filename) THEN default_filename(t) ELSE output_filename)

output_path(t, output_filename, destfolder) ==
  LET dest == IF Falsy(destfolder) THEN getcwd ELSE destfolder
      name == IF Falsy(output_filename) THEN default_filename(t) ELSE output_filename
  IN  path_join(dest, name \o ".h5")

\* Lines 120-127: the write, when asked for.
save_step(fs, save, path, table) ==
  IF save THEN to_hdf(fs, path, HdfKey, table) ELSE fs

\* Lines 109-111: the filter's output replaces the to_smooth columns of t.
filter_step(t, to_smooth, filter_window, order, deriv) ==
  loc_set(t, to_smooth,
          savgol_filter(loc_get(t, to_smooth).data, filter_window, order, deriv))

\* The outcome of a call that raised: nothing returned, storage as it was.
smooth_failed(heap, fs) ==
  [status |-> "error", ret |-> None, heap |-> heap, fs |-> fs]

\* Lines 120-128: df_cut is written when asked for, and returned.
smooth_return(heap, df_cut, path, save, fs) ==
  [status |-> "ok", ret |-> df_cut, heap |-> heap,
   fs |-> save_step(fs, save, path, df_cut)]

\* Lines 112-128, on the filtered table t (the object df of heap).
smooth_finish(heap, t, mask, save, output_filename, destfolder, fs) ==
  smooth_return(heap, loc_get(t, mask),
                output_path(t, output_filename, destfolder), save, fs)

\* Lines 109-128: the object df of heap takes the filtered table.
smooth_filtered(heap, df, filtered, mask, save, output_filename, destfolder, fs) ==
  smooth_finish([heap EXCEPT ![df] = filtered], filtered, mask, save,
                output_filename, destfolder, fs)

\* A selection that raises on a label the table does not have.
selection_raises_strict(t, bodyparts) ==
  \/ bodyparts = <<>>
  \/ \E i \in 1..Len(bodyparts) :
       /\ bodyparts[i] # "all"
       /\ \A c \in 1..NCols(t) : t.columns[c].bodyparts # bodyparts[i]

\* Whether line 104 raises: bodyparts[0] is an IndexError on an empty list;
\* nothing else about the list is checked.
selection_raises(t, bodyparts) == bodyparts = <<>>

\* Lines 103-128, on the copy: the object df of heap, holding the table t.
\* IndexError on an empty bodyparts list (line 104) and ValueError from
\* savgol_filter (line 109) end the call before anything is written.
smooth_on_copy(heap, df, t, bodyparts, filter_window, order, deriv, save, output_filename, destfolder, fs, evenOk) ==
  IF selection_raises(t, bodyparts) THEN smooth_failed(heap, fs)
  ELSE IF ~savgol_accepts(NRows(t), filter_window, order, evenOk)
  THEN smooth_failed(heap, fs)
  ELSE smooth_filtered(
         heap, df,
         filter_step(t, to_smooth_mask(t, bodyparts), filter_window, order, deriv),
         bodypart_mask(t, bodyparts), save, output_filename, destfolder, fs)

\* The name df rebound to the copy (line 102), then the rest of the body.
smooth_after_copy(cp, bodyparts, filter_window, order, deriv, save, output_filename, destfolder, fs, evenOk) ==
  smooth_on_copy(cp.heap, cp.ref, cp.heap[cp.ref], bodyparts, filter_window,
                 order, deriv, save, output_filename, destfolder, fs, evenOk)

\* smooth_trajectory (lines 102-128) called with the object ref of heap and
\* the storage fs.  The outcome: status "ok" with the returned table ret, or
\* "error", and the memory and the storage the call leaves.
smooth_trajectory(heap, ref, bodyparts, filter_window, order, deriv, save, output_filename, destfolder, fs, evenOk) ==
  smooth_after_copy(df_copy(heap, ref), bodyparts, filter_window, order, deriv,
                    save, output_filename, destfolder, fs, evenOk)

\* ------------------------------------------------------------- load_data

\* Only the first bodypart of the table.
load_bodyparts_first(t) == <<get_level_values(t, "bodyparts")[1]>>

\* The bodyparts load_data hands to smooth_trajectory (line 49).
load_bodyparts(t) == unique(get_level_values(t, "bodyparts"))

\* The scorer load_data returns (line 45): level 0 of the columns is the
\* scorer level, and the first column's label is taken.
load_scorer(t) == get_level_values(t, "scorer")[1]

\* What load_data returns: the table, the bodyparts and the scorer.
load_return(df, bodyparts, scorer, fs) ==
  [status |-> "ok", ret |-> df, bodyparts |-> bodyparts, scorer |-> scorer, fs |-> fs]

load_failed(fs) ==
  [status |-> "error", ret |-> None, bodyparts |-> <<>>, scorer |-> None, fs |-> fs]

\* Lines 46-58: r is the outcome of the smooth_trajectory call of line 47.
load_smoothed(r, bodyparts, scorer) ==
  IF r.status = "error" THEN load_failed(r.fs)
  ELSE load_return(r.ret, bodyparts, scorer, r.fs)

\* Lines 44-58, on the table df read at line 43.
load_table(df, bodyparts, scorer, smooth, filter_window, order, fs, evenOk) ==
  IF ~smooth THEN load_return(df, bodyparts, scorer, fs)
  ELSE load_smoothed(
         smooth_trajectory((CallerRef :> df), CallerRef, bodyparts, filter_window,
                           order, 0, FALSE, None, None, fs, evenOk),
         bodyparts, scorer)

\* load_data (lines 43-58): status "ok" with the table, the bodyparts and the
\* scorer, or "error" when the file cannot be read or the smoothing raises.
load_data(fs, filename, smooth, filter_window, order, evenOk) ==
  IF ~hdf_readable(fs, filename, HdfKey) THEN load_failed(fs)
  ELSE load_table(read_hdf(fs, filename, HdfKey),
                  load_bodyparts(read_hdf(fs, filename, HdfKey)),
                  load_scorer(read_hdf(fs, filename, HdfKey)),
                  smooth, filter_window, order, fs, evenOk)

\* ------------------------------------------------------------ the program

VARIABLES
  scipyEvenOk,  \* whether the installed savgol_filter accepts an even window
  fs,           \* storage: path -> (record name -> table)
  df,           \* the table the caller holds and passes to smooth_trajectory
  last,         \* the last call: its arguments, what it found and its outcome
  calls         \* calls made so far

vars == <<scipyEvenOk, fs, df, last, calls>>

\* The inputs the calls are drawn from.
Scorer == "modelA"
InputTables ==
  { MakeTable(Scorer, <<"nose", "tail">>, 0, n, 1) : n \in {MaxRows - 1, MaxRows} }
BodypartLists ==
  { <<>>, <<"all">>, <<"all", "nose">>, <<"nose">>, <<"nose", "all">>,
    <<"tail", "ghost", "nose">> }
\* Where a result is asked to go: nowhere said, or a folder and a name.
Places ==
  { [destfolder |-> None, output_filename |-> None],
    [destfolder |-> "/dest", output_filename |-> "out"] }
FilterWindows == {-1, 2, 3}
Orders == {-1, 1, 3}
Derivs == {0, 1}
VideoFile == "/data/video.h5"
FileNames == {VideoFile, "/dest/out.h5", "/data/missing.h5"}

\* Storage at the start: the analysed video's table, and an older file at one
\* of the places a result can be written to, holding two records.
InitialStorage(t) ==
  (VideoFile :> (HdfKey :> t)) @@
  ("/dest/out.h5" :> ((HdfKey :> MakeTable("old", <<"paw">>, 0, 2, 3)) @@
                      ("notes" :> MakeTable("old", <<"paw">>, 0, 2, 4))))

NoCall == [op |-> "none"]

Init ==
  /\ scipyEvenOk \in BOOLEAN
  /\ df \in InputTables
  /\ fs = InitialStorage(df)
  /\ last = NoCall
  /\ calls = 0

\* Whether the selection names a column of the table.  A selection that names
\* none hands savgol_filter a frame of no columns, whose outcome the source
\* does not decide; such calls are not drawn.
SelectsSomeColumn(t, bodyparts) ==
  IF bodyparts = <<>> THEN TRUE
  ELSE {c \in 1..NCols(t) : bodypart_mask(t, bodyparts)[c]} # {}

\* A call of smooth_trajectory on the caller's table.
SmoothTrajectory ==
  /\ calls < MaxCalls
  /\ \E bodyparts \in BodypartLists, filter_window \in FilterWindows,
        order \in Orders, deriv \in Derivs, save \in BOOLEAN,
        place \in Places :
       /\ SelectsSomeColumn(df, bodyparts)
       /\ \E r \in {smooth_trajectory((CallerRef :> df), CallerRef, bodyparts,
                                       filter_window, order, deriv, save,
                                       place.output_filename, place.destfolder,
                                       fs, scipyEvenOk)} :
              /\ fs' = r.fs
              /\ df' = r.heap[CallerRef]
              /\ last' = [op |-> "smooth_trajectory", bodyparts |-> bodyparts,
                          filter_window |-> filter_window, order |-> order,
                          deriv |-> deriv, save |-> save,
                          output_filename |-> place.output_filename,
                          destfolder |-> place.destfolder,
                          dfBefore |-> df, fsBefore |-> fs,
                          status |-> r.status, ret |-> r.ret]
  /\ calls' = calls + 1
  /\ UNCHANGED scipyEvenOk

\* A call of load_data; the caller keeps the table it returns.
LoadData ==
  /\ calls < MaxCalls
  /\ \E filename \in FileNames, smooth \in BOOLEAN,
        filter_window \in FilterWindows, order \in Orders :
       \E r \in {load_data(fs, filename, smooth, filter_window, order, scipyEvenOk)} :
           /\ fs' = r.fs
           /\ df' = IF r.status = "ok" THEN r.ret ELSE df
           /\ last' = [op |-> "load_data", filename |-> filename, smooth |-> smooth,
                       filter_window |-> filter_window, order |-> order,
                       fsBefore |-> fs,
                       status |-> r.status, ret |-> r.ret,
                       retBodyparts |-> r.bodyparts, retScorer |-> r.scorer]
  /\ calls' = calls + 1
  /\ UNCHANGED scipyEvenOk

Next == SmoothTrajectory \/ LoadData

Spec == Init /\ [][Next]_vars

\* ------------------------------------------------------------- the claims

SmoothCalled   == last.op = "smooth_trajectory"
SmoothReturned == SmoothCalled /\ last.status = "ok"
LoadCalled     == last.op = "load_data"

Range(seq) == {seq[i] : i \in 1..Len(seq)}

\* The column of the table t that carries the label lbl.
ColumnAt(t, lbl) == CHOOSE j \in 1..NCols(t) : t.columns[j] = lbl

\* The last call returned a table some cell of which differs from the input's.
FilterActed ==
  /\ SmoothReturned
  /\ \E k \in 1..NCols(last.ret) :
       last.ret.data[k] # last.dfBefore.data[ColumnAt(last.dfBefore, last.ret.columns[k])]

\* The input columns whose bodypart label is one of labels, in their order.
ColumnsLabelled(t, labels) ==
  SelectSeq(t.columns, LAMBDA c : c.bodyparts \in labels)

\* C1: a table smooth_trajectory returns has the rows of its input: the same
\* row index in the same order, and one value per row in every column.
C1_RowsPreserved ==
  SmoothReturned =>
    /\ last.ret.index = last.dfBefore.index
    /\ \A k \in 1..NCols(last.ret) : Len(last.ret.data[k]) = Len(last.dfBefore.index)

C1_Witness ==
  /\ FilterActed
  /\ last.bodyparts = <<"nose">>
  /\ NRows(last.dfBefore) >= 3

\* C2 as stated: the returned columns are the input columns whose bodypart is
\* in the requested list, and all of them when the list is ['all'].
C2_Original ==
  SmoothReturned =>
    last.ret.columns =
      IF last.bodyparts = <<"all">> THEN last.dfBefore.columns
      ELSE ColumnsLabelled(last.dfBefore, Range(last.bodyparts))

\* C2 amended: for a list whose first element is not 'all', the returned
\* columns are the input columns whose bodypart is in the list, x, y and
\* likelihood of each, in their original order, each with the input's or the
\* filtered values of that column; for a list whose first element is 'all',
\* they are all the input's columns.
C2_ColumnsSelected ==
  SmoothReturned =>
    /\ last.ret.columns =
         IF last.bodyparts[1] = "all" THEN last.dfBefore.columns
         ELSE ColumnsLabelled(last.dfBefore, Range(last.bodyparts))
    /\ \A bp \in Range(get_level_values(last.ret, "bodyparts")) :
         {c.coords : c \in {d \in Range(last.ret.columns) : d.bodyparts = bp}}
           = {"x", "y", "likelihood"}

C2_Witness ==
  /\ SmoothReturned
  /\ last.bodyparts = <<"nose">>
  /\ NCols(last.ret) = 3
  /\ NCols(last.dfBefore) = 6

\* C3: every likelihood column of the returned table holds, row for row, the
\* values that column has in the input.
C3_LikelihoodUntouched ==
  SmoothReturned =>
    \A k \in 1..NCols(last.ret) :
      last.ret.columns[k].coords = "likelihood" =>
        last.ret.data[k] = last.dfBefore.data[ColumnAt(last.dfBefore, last.ret.columns[k])]

C3_Witness ==
  /\ FilterActed
  /\ \E k \in 1..NCols(last.ret) : last.ret.columns[k].coords = "likelihood"

\* C4: after a call of smooth_trajectory, returned or failed, the caller's
\* table is what it was before the call.
C4_CallerTableUnchanged ==
  SmoothCalled => df = last.dfBefore

C4_Witness ==
  /\ FilterActed
  /\ last.save
  /\ df = last.dfBefore

\* C5 as stated: with an even filter_window, an order >= filter_window or a
\* negative one of the two, the call fails and storage is left as it was.
C5_InvalidParametersFail ==
  ( /\ SmoothCalled
    /\ \/ last.filter_window % 2 = 0
       \/ last.order >= last.filter_window
       \/ last.filter_window < 0
       \/ last.order < 0 )
  => (last.status = "error" /\ fs = last.fsBefore)

\* Where the result of the last call is stored, for a folder and a name given.
GivenPlace == ~Falsy(last.destfolder) /\ ~Falsy(last.output_filename)

\* The same call without the save.
UnsavedOutcome ==
  smooth_trajectory((CallerRef :> last.dfBefore), CallerRef, last.bodyparts,
                    last.filter_window, last.order, last.deriv, FALSE,
                    last.output_filename, last.destfolder, last.fsBefore, scipyEvenOk)

RoundTrip(path) ==
  /\ hdf_readable(fs, path, HdfKey)
  /\ read_hdf(fs, path, HdfKey) = last.ret
  /\ read_hdf(fs, path, HdfKey) = UnsavedOutcome.ret

\* C6 as stated: after a saving call with destfolder D and output_filename N,
\* the record read at D/N is the table the call returned.
C6_Original ==
  (SmoothReturned /\ last.save /\ GivenPlace) =>
    RoundTrip(last.destfolder \o "/" \o last.output_filename)

\* C6 amended: after a saving call with destfolder D and output_filename N,
\* the record read at D/N.h5 (the name with the suffix ".h5" appended) is the
\* table the call returned, which is the table the same call returns without
\* the save.
C6_RoundTrip ==
  (SmoothReturned /\ last.save /\ GivenPlace) =>
    RoundTrip(last.destfolder \o "/" \o last.output_filename \o ".h5")

C6_Witness ==
  /\ FilterActed
  /\ last.save
  /\ GivenPlace
  /\ last.bodyparts = <<"nose">>

\* The table load_data read, and the outcome of smoothing it with ['all'].
RawTable == read_hdf(last.fsBefore, last.filename, HdfKey)

SmoothAllOutcome ==
  smooth_trajectory((CallerRef :> RawTable), CallerRef, <<"all">>,
                    last.filter_window, last.order, 0, FALSE, None, None,
                    last.fsBefore, scipyEvenOk)

\* bps lists each bodypart of the table t once, in order of first appearance.
ListsBodyparts(bps, t) ==
  /\ Range(bps) = {t.columns[c].bodyparts : c \in 1..NCols(t)}
  /\ \A i, j \in 1..Len(bps) : i < j =>
       /\ bps[i] # bps[j]
       /\ ColumnAt(t, BodypartColumns(t.columns[1].scorer, bps[i])[1])
            < ColumnAt(t, BodypartColumns(t.columns[1].scorer, bps[j])[1])

\* C7: load_data with smooth=True returns (or fails like) the Smoother on the
\* table read, with bodyparts ['all'], the given window and order, deriv 0 and
\* no save: all columns and rows of the table read; with smooth=False it
\* returns the table read.  It writes nothing, and the bodyparts and the
\* scorer it returns are those of the table read.
C7_LoadDelegates ==
  (LoadCalled /\ hdf_readable(last.fsBefore, last.filename, HdfKey)) =>
    /\ fs = last.fsBefore
    /\ last.smooth =>
         /\ last.status = SmoothAllOutcome.status
         /\ last.ret = SmoothAllOutcome.ret
         /\ last.status = "ok" =>
              /\ last.ret.columns = RawTable.columns
              /\ last.ret.index = RawTable.index
    /\ ~last.smooth => (last.status = "ok" /\ last.ret = RawTable)
    /\ last.status = "ok" =>
         /\ ListsBodyparts(last.retBodyparts, RawTable)
         /\ last.retScorer = RawTable.columns[1].scorer

C7_Witness ==
  /\ LoadCalled
  /\ last.smooth
  /\ last.status = "ok"
  /\ last.filename = VideoFile
  /\ last.ret # RawTable
  /\ Len(last.retBodyparts) = 2

\* The place smooth_trajectory writes to: the folder, or the working
\* directory when none is given; the name, or "dataFrame_smooth_" and the
\* table's scorer when none is given; and the suffix ".h5".
WrittenPath ==
  (IF last.destfolder = None THEN "/cwd" ELSE last.destfolder)
    \o "/" \o
  (IF last.output_filename = None
   THEN "dataFrame_smooth_" \o last.dfBefore.columns[1].scorer
   ELSE last.output_filename)
    \o ".h5"

\* C8: a call with save=False, and a call that fails, leaves every file as it
\* was; a call with save=True that returns leaves one file changed, the one
\* at the place asked for, which then holds the returned table as its only
\* record, whatever it held before.
C8_StorageEffect ==
  SmoothCalled =>
    /\ (~last.save \/ last.status = "error") => fs = last.fsBefore
    /\ (last.save /\ last.status = "ok") =>
         /\ DOMAIN fs = DOMAIN last.fsBefore \cup {WrittenPath}
         /\ fs[WrittenPath] = (HdfKey :> last.ret)
         /\ \A q \in DOMAIN last.fsBefore : q # WrittenPath => fs[q] = last.fsBefore[q]

\* An older file with two records was at the place written to.
C8_Witness ==
  /\ FilterActed
  /\ last.save
  /\ WrittenPath \in DOMAIN last.fsBefore
  /\ Cardinality(DOMAIN last.fsBefore[WrittenPath]) = 2

\* The labels of the requested list that occur in the table, in list order.
PresentLabels ==
  SelectSeq(last.bodyparts,
            LAMBDA b : b \in Range(get_level_values(last.dfBefore, "bodyparts")))

\* The same call with the absent labels taken off the list.
PresentOnlyOutcome ==
  smooth_trajectory((CallerRef :> last.dfBefore), CallerRef, PresentLabels,
                    last.filter_window, last.order, last.deriv, last.save,
                    last.output_filename, last.destfolder, last.fsBefore, scipyEvenOk)

AbsentLabelsIgnored ==
  /\ last.status = PresentOnlyOutcome.status
  /\ last.ret = PresentOnlyOutcome.ret
  /\ fs = PresentOnlyOutcome.fs
  /\ last.status = "ok" =>
       Range(get_level_values(last.ret, "bodyparts"))
         \subseteq Range(get_level_values(last.dfBefore, "bodyparts"))

\* C9 as stated: for a list that names a bodypart of the table, the call
\* does what it does for the list without the labels absent from the table.
C9_Original ==
  (SmoothCalled /\ PresentLabels # <<>>) => AbsentLabelsIgnored

\* C9 amended: for a list that names a bodypart of the table and whose first
\* element is not 'all', the call does what it does for the list without the
\* labels absent from the table: the same outcome, table and storage, and no
\* column of a label absent from the input.
C9_AbsentLabelsIgnored ==
  (SmoothCalled /\ PresentLabels # <<>> /\ last.bodyparts[1] # "all")
    => AbsentLabelsIgnored

C9_Witness ==
  /\ FilterActed
  /\ last.bodyparts = <<"tail", "ghost", "nose">>
  /\ PresentLabels = <<"tail", "nose">>

\* The same call with the list ['all'].
AllOutcome ==
  smooth_trajectory((CallerRef :> last.dfBefore), CallerRef, <<"all">>,
                    last.filter_window, last.order, last.deriv, last.save,
                    last.output_filename, last.destfolder, last.fsBefore, scipyEvenOk)

\* C10: a list whose first element is 'all' does what ['all'] does and returns
\* every column; a list with 'all' further on returns the columns of the
\* bodyparts it names and no other; an empty list fails and leaves the
\* caller's table and storage as they were.
C10_FirstElementDecides ==
  SmoothCalled =>
    /\ last.bodyparts = <<>> =>
         (last.status = "error" /\ fs = last.fsBefore /\ df = last.dfBefore)
    /\ (last.bodyparts # <<>> /\ last.bodyparts[1] = "all") =>
         /\ last.status = AllOutcome.status
         /\ last.ret = AllOutcome.ret
         /\ fs = AllOutcome.fs
         /\ last.status = "ok" => last.ret.columns = last.dfBefore.columns
    /\ (last.status = "ok" /\ last.bodyparts[1] # "all") =>
         Range(get_level_values(last.ret, "bodyparts"))
           = Range(last.bodyparts)
               \cap Range(get_level_values(last.dfBefore, "bodyparts"))

C10_Witness ==
  /\ FilterActed
  /\ last.bodyparts = <<"all", "nose">>
  /\ NCols(last.ret) = 6

====
